---------------------------- MODULE Spec2Model ----------------------------
(***************************************************************************)
(* Model of lib/collaborative_filtering.py (CollaborativeFiltering): the   *)
(* holdout splitter naive_split, the k-fold index generator                *)
(* get_kfold_indices with get_fold / generate_kfold_matrix, and the        *)
(* control flow of train / partial_train.                                  *)
(*                                                                         *)
(* numpy index arrays are sequences of 0-based item indices; matrices are  *)
(* functions [0..n_users-1 -> [0..n_items-1 -> value]].  Python 3 numbers: *)
(* round() is round-half-to-even, int() truncates toward zero.             *)
(***************************************************************************)
EXTENDS Integers, Sequences, FiniteSets, TLC

\* ------------------------------------------------------------------ bounds
MaxUsers  == 1      \* naive_split: largest number of users
MaxItems  == 3      \* naive_split: largest number of items

RowItems  == 5      \* get_kfold_indices, single row: largest number of items
FoldUsers == 2      \* get_fold: largest number of users
FoldItems == 2      \* get_fold: largest number of items
MaxK      == 5      \* largest k_folds option
FoldK     == 2      \* get_fold: largest k_folds option

MaxIter   == 2      \* train: largest n_iterations option
MaxTrains == 2      \* train: largest number of train() calls
MaxDirect == 2      \* train: largest number of direct partial_train() calls

AlsUsers    == 2    \* numeric train: largest number of users
AlsItems    == 2    \* numeric train: largest number of items
AlsSeedBits == 4    \* numeric train: the random stream repeats after this many values

\* k_folds when the options do not give it (set_options)
DefaultKFolds == 5

\* rating values tried (0 = unobserved)
RatingValues == {0, 1, 2}

\* binary ratings, as in the fixture of tests/linear_regression_tests.py
BinaryValues == {0, 1}

\* n_factors values tried
FactorCounts == {1, 2}

\* _lambda values tried, as fractions
Lambdas == {<<0, 1>>, <<1, 1>>}

\* shifts of the fixture ratings tried
FixtureShifts == {0, 1, 2}

\* seeds of the random generator tried with persistence
PersistSeeds == {6, 9}

\* test_percentage values tried, in percent (0.2 is the default of naive_split)
TestPercentages == {20, 70}

\* ------------------------------------------------------- numeric helpers
\* int(x) of Python for x = num/den, den > 0: truncation toward zero
PyInt(num, den) == IF num >= 0 THEN num \div den ELSE -((-num) \div den)

\* round(x) of Python 3 for x = num/den >= 0, den > 0: half to even
PyRound(num, den) ==
    LET q == num \div den
        r == num % den
    IN  IF 2 * r < den THEN q
        ELSE IF 2 * r > den THEN q + 1
        ELSE IF q % 2 = 0 THEN q ELSE q + 1

\* a[start:stop] of Python on a sequence (negative bounds count from the end,
\* out-of-range bounds are clamped)
PySlice(a, start, stop) ==
    LET n  == Len(a)
        lo == IF start < 0 THEN (IF start + n < 0 THEN 0 ELSE start + n)
              ELSE (IF start > n THEN n ELSE start)
        hi == IF stop < 0 THEN (IF stop + n < 0 THEN 0 ELSE stop + n)
              ELSE (IF stop > n THEN n ELSE stop)
    IN  SubSeq(a, lo + 1, hi)

Range(s) == {s[i] : i \in 1..Len(s)}

\* the ascending sequence of the elements of a finite set of integers
RECURSIVE SortedSeq(_)
SortedSeq(S) ==
    IF S = {} THEN << >>
    ELSE LET m == CHOOSE x \in S : \A y \in S : x <= y
         IN  <<m>> \o SortedSeq(S \ {m})

\* all orderings of a finite set (the outcomes of numpy.random.shuffle)
RECURSIVE Perms(_)
Perms(S) ==
    IF S = {} THEN {<< >>}
    ELSE UNION {{<<x>> \o p : p \in Perms(S \ {x})} : x \in S}

ZeroRow(n) == [i \in 0..(n - 1) |-> 0]
ZeroMatrix(nu, ni) == [u \in 0..(nu - 1) |-> ZeroRow(ni)]

\* row.nonzero()[0]: the indices of the non-zero entries of a row
NonZeros(row) == {i \in DOMAIN row : row[i] # 0}

\* ------------------------------------------------------------------ state
VARIABLES
    ratings,          \* self.ratings
    n_users,          \* self.n_users
    n_items,          \* self.n_items
    pc,               \* position of the running call
    \* naive_split
    test_percentage,  \* argument test_percentage, in percent
    docs,             \* argument docs
    empty_choice_ok,  \* numpy build: choice() of an empty array with size 0 returns
    user,             \* loop variable of naive_split
    train,            \* local train of naive_split
    test,             \* local test of naive_split
    test_indices,     \* self.test_indices
    train_data,       \* self.train_data
    test_data,        \* self.test_data
    \* set_options, get_kfold_indices, get_fold
    options,             \* self.options
    k_folds,             \* self.k_folds (0 stands for None)
    train_indices,       \* local train_indices of get_kfold_indices
    kf_test_indices,     \* local test_indices of get_kfold_indices
    fold_train_indices,  \* self.fold_train_indices
    fold_test_indices,   \* self.fold_test_indices
    fold_num,            \* argument of the last get_fold call (0: no call yet)
    fold_train_matrix,   \* train matrix returned by the last get_fold call
    fold_test_matrix,    \* test matrix returned by the last get_fold call
    \* train, partial_train
    load_matrices,    \* self._load_matrices
    dump_matrices,    \* self._dump_matrices
    train_more,       \* self._train_more
    n_iter,           \* self.n_iter
    item_arg,         \* argument item_vecs of the last train call: "None" or "given"
    users_found,      \* local users_found of train (FALSE while unassigned)
    items_found,      \* local items_found of train (FALSE while unassigned)
    matrices_found,   \* local matrices_found of train
    user_vecs,        \* self.user_vecs: [by |-> who wrote it, ver |-> number of writes]
    item_vecs,        \* self.item_vecs
    ctr,              \* loop variable of partial_train
    pt_caller,        \* who called the running partial_train: "train" or "direct"
    steps,            \* history: the half-steps performed, in order
    train_calls,      \* history: number of train() calls made
    direct_calls,     \* history: number of direct partial_train() calls made
    pt_calls,         \* history: number of partial_train() calls made
    pt_in_train,      \* history: partial_train() calls made by the last train() call
    adapter_log,      \* history: calls made to the persistence adapter (self.initializer)
    \* hyperparameters, the numeric factors, the persistence adapter
    hyperparameters,  \* self.hyperparameters
    n_factors,        \* self.n_factors (NoAttr: the attribute was never set)
    lambda,           \* self._lambda, a fraction
    rng,              \* numpy.random: <<seed, number of values drawn>>
    role,             \* argument type of the running als_step: "user" or "item"
    als_row,          \* loop variable u / i of als_step
    store,            \* the matrices kept by the persistence adapter
    solver,           \* history: 1 for the first solver, 2 for the one built after it
    first_final,      \* history: the factors of the first solver when its train() returned
    supplied          \* history: the matrix passed as item_vecs, as it was when passed

splitVars == <<test_percentage, docs, empty_choice_ok, user, train, test,
               test_indices, train_data, test_data>>
foldVars == <<options, k_folds, train_indices, kf_test_indices, fold_train_indices,
              fold_test_indices, fold_num, fold_train_matrix, fold_test_matrix>>
trainVars == <<load_matrices, dump_matrices, train_more, n_iter, item_arg, users_found,
               items_found, matrices_found, user_vecs, item_vecs, ctr, pt_caller, steps,
               train_calls, direct_calls, pt_calls, pt_in_train, adapter_log>>
alsVars == <<hyperparameters, n_factors, lambda, rng, role, als_row, store, solver,
             first_final, supplied>>
vars == <<ratings, n_users, n_items, pc, splitVars, foldVars, trainVars, alsVars>>

None == "None"

RatingsMatrices(nu, ni, values) == [0..(nu - 1) -> [0..(ni - 1) -> values]]

\* the variables of a part of the solver that a specification does not exercise
SplitIdle ==
    /\ test_percentage = None
    /\ docs = FALSE
    /\ empty_choice_ok = TRUE
    /\ train = None
    /\ test = None
    /\ test_indices = << >>
    /\ train_data = None
    /\ test_data = None

FoldIdle ==
    /\ options = << >>
    /\ k_folds = 0
    /\ train_indices = << >>
    /\ kf_test_indices = << >>
    /\ fold_train_indices = None
    /\ fold_test_indices = None
    /\ fold_num = 0
    /\ fold_train_matrix = None
    /\ fold_test_matrix = None

\* an attribute that was never set on the solver
NoAttr == -1

AlsIdle ==
    /\ hyperparameters = << >>
    /\ n_factors = NoAttr
    /\ lambda = <<0, 1>>
    /\ rng = <<0, 0>>
    /\ role = None
    /\ als_row = 0
    /\ store = {}
    /\ solver = 1
    /\ first_final = << >>
    /\ supplied = << >>

\* a factor matrix attribute that was never assigned
Unset == [by |-> "unset", ver |-> 0]

TrainIdle ==
    /\ load_matrices = TRUE
    /\ dump_matrices = TRUE
    /\ train_more = TRUE
    /\ n_iter = 0
    /\ item_arg = None
    /\ users_found = FALSE
    /\ items_found = FALSE
    /\ matrices_found = FALSE
    /\ user_vecs = Unset
    /\ item_vecs = Unset
    /\ ctr = 0
    /\ pt_caller = None
    /\ steps = << >>
    /\ train_calls = 0
    /\ direct_calls = 0
    /\ pt_calls = 0
    /\ pt_in_train = 0
    /\ adapter_log = << >>

\* ------------------------------------------------------------ naive_split
\* size=int(test_percentage * len(non_zeros))
NaiveTestSize(pct, nz) == PyInt(pct * nz, 100)

\* numpy.random.choice(non_zeros, size): size draws, default replace=True
ChoiceDraws(non_zeros, size) == [1..size -> non_zeros]

\* (mutation: the whole row of the user is zeroed out of train)
ZeroAtWholeRow(row, idxs) == [i \in DOMAIN row |-> IF idxs # {} THEN 0 ELSE row[i]]

\* train[user, test_ratings] = 0.
ZeroAt(row, idxs) == [i \in DOMAIN row |-> IF i \in idxs THEN 0 ELSE row[i]]

\* test[user, test_ratings] = self.ratings[user, test_ratings]
CopyAt(row, src, idxs) == [i \in DOMAIN row |-> IF i \in idxs THEN src[i] ELSE row[i]]

\* number of iterations of the loop: self.ratings.shape[shape_index]
SplitLoopBound == IF docs THEN n_items ELSE n_users

SplitInit ==
    /\ n_users \in 1..MaxUsers
    /\ n_items \in 1..MaxItems
    /\ ratings \in RatingsMatrices(n_users, n_items, RatingValues)
    /\ test_percentage \in TestPercentages
    /\ docs \in BOOLEAN
    /\ empty_choice_ok \in BOOLEAN
    /\ pc = "naive_split"
    /\ user = 0
    /\ train = None
    /\ test = None
    /\ test_indices = << >>
    /\ train_data = None
    /\ test_data = None
    /\ FoldIdle
    /\ TrainIdle
    /\ AlsIdle

\* lines 85-89: test = zeros(shape); train = ratings.copy()
NaiveSplitEnter ==
    /\ pc = "naive_split"
    /\ test' = ZeroMatrix(n_users, n_items)
    /\ train' = ratings
    /\ user' = 0
    /\ pc' = "split_loop"
    /\ UNCHANGED <<ratings, n_users, n_items, test_percentage, docs, empty_choice_ok,
                   test_indices, train_data, test_data, foldVars, trainVars,
                   alsVars>>

\* lines 90-96: one iteration of the loop over users
NaiveSplitUser ==
    /\ pc = "split_loop"
    /\ user < SplitLoopBound
    /\ user < n_users
    /\ LET non_zeros == NonZeros(ratings[user])
           size == NaiveTestSize(test_percentage, Cardinality(non_zeros))
       IN  /\ non_zeros # {} \/ empty_choice_ok
           /\ \E test_ratings \in ChoiceDraws(non_zeros, size) :
                /\ train' = [train EXCEPT ![user] = ZeroAt(@, Range(test_ratings))]
                /\ test' = [test EXCEPT ![user] = CopyAt(@, ratings[user], Range(test_ratings))]
                /\ test_indices' = test_indices \o <<test_ratings>>
    /\ user' = user + 1
    /\ UNCHANGED <<ratings, n_users, n_items, pc, test_percentage, docs, empty_choice_ok,
                   train_data, test_data, foldVars, trainVars,
                   alsVars>>

\* line 92 on a numpy that rejects choice() from an empty array: ValueError
NaiveSplitEmptyChoice ==
    /\ pc = "split_loop"
    /\ user < SplitLoopBound
    /\ user < n_users
    /\ NonZeros(ratings[user]) = {}
    /\ ~empty_choice_ok
    /\ pc' = "ValueError"
    /\ UNCHANGED <<ratings, n_users, n_items, splitVars, foldVars, trainVars,
                   alsVars>>

\* line 91 with docs=True and more items than users: self.ratings[user, :] fails
NaiveSplitIndexError ==
    /\ pc = "split_loop"
    /\ user < SplitLoopBound
    /\ user >= n_users
    /\ pc' = "IndexError"
    /\ UNCHANGED <<ratings, n_users, n_items, splitVars, foldVars, trainVars,
                   alsVars>>

\* lines 97-100: the assert, then self.train_data = train; self.test_data = test
NaiveSplitReturn ==
    /\ pc = "split_loop"
    /\ user >= SplitLoopBound
    /\ IF \A u \in 0..(n_users - 1) : \A i \in 0..(n_items - 1) : train[u][i] * test[u][i] = 0
       THEN /\ train_data' = train
            /\ test_data' = test
            /\ pc' = "split_done"
       ELSE /\ pc' = "AssertionError"
            /\ UNCHANGED <<train_data, test_data>>
    /\ UNCHANGED <<ratings, n_users, n_items, test_percentage, docs, empty_choice_ok,
                   user, train, test, test_indices, foldVars, trainVars,
                   alsVars>>

SplitNext ==
    \/ NaiveSplitEnter
    \/ NaiveSplitUser
    \/ NaiveSplitEmptyChoice
    \/ NaiveSplitIndexError
    \/ NaiveSplitReturn

SpecSplit == SplitInit /\ [][SplitNext]_vars

\* ------------------------------------------------------------ set_options
\* the option dictionaries: a function from the keys present to their values
OptionsWithK(maxk) == {[key \in {"k_folds"} |-> k] : k \in 1..maxk} \cup {<< >>}

\* lines 60-63: k_folds after set_options(opts) when it was k_prev before
SetOptionsKFolds(k_prev, opts) ==
    IF "k_folds" \in DOMAIN opts THEN opts["k_folds"]
    ELSE IF k_prev = 0 THEN DefaultKFolds
    ELSE k_prev

\* ------------------------------------------------------ get_kfold_indices
\* (mutation: the share is truncated instead of rounded)
SizeOfTestTruncated(k, n_rated) == n_rated \div k

\* line 129: size_of_test = round((1/k_folds) * len(rated_items_indices))
SizeOfTest(k, n_rated) == PyRound(n_rated, k)

\* (mutation: the last fold is cut like the others and drops the remainder)
ChunkNoRemainder(rated, k, index) ==
    LET size_of_test == PyRound(Len(rated), k)
        counter == index * size_of_test
    IN  PySlice(rated, counter, counter + size_of_test)

\* lines 141-145: the rated indices of fold index (0-based); counter = index * size_of_test
Chunk(rated, k, index) ==
    LET size_of_test == SizeOfTest(k, Len(rated))
        counter == index * size_of_test
    IN  IF index = k - 1
        THEN PySlice(rated, counter, Len(rated))
        ELSE PySlice(rated, counter, counter + size_of_test)

\* (mutation: the rated items already in the fold are not subtracted)
NumToAddIgnoringChunk(ni, k, chunk_len) == PyInt(ni, k)

\* line 148: int((n_items / k_folds) - len(test_ratings[index]))
NumToAdd(ni, k, chunk_len) == PyInt(ni - chunk_len * k, k)

\* (mutation: every fold takes its padding from the start of the pool)
AdditionFromStart(non_rated, index, cur, prev) == PySlice(non_rated, 0, cur)

\* lines 149-153: the slice of the shuffled unrated indices added to fold index;
\* cur = num_to_add[index], prev = num_to_add[index - 1]
Addition(non_rated, index, cur, prev) ==
    IF index > 0 /\ cur # prev
    THEN PySlice(non_rated, index * prev, (prev * index) + cur)
    ELSE PySlice(non_rated, index * cur, cur * (index + 1))

\* lines 141-155: test_ratings[index] after the padding is appended
TestRatings(rated, non_rated, ni, k, index) ==
    LET chunk == Chunk(rated, k, index)
        cur   == NumToAdd(ni, k, Len(chunk))
        prev  == IF index > 0 THEN NumToAdd(ni, k, Len(Chunk(rated, k, index - 1))) ELSE 0
    IN  chunk \o Addition(non_rated, index, cur, prev)

\* (mutation: the second mask clears the test indices only)
TrainRatingsMaskTestOnly(rated, test_ratings, ni) ==
    LET NotInTest(x) == x \notin Range(test_ratings)
        train_index == SelectSeq(rated, NotInTest)
    IN  train_index \o SortedSeq((0..(ni - 1)) \ Range(test_ratings))

\* lines 159-163: train_ratings of a fold whose test set is test_ratings
TrainRatings(rated, test_ratings, ni) ==
    LET NotInTest(x) == x \notin Range(test_ratings)
        train_index == SelectSeq(rated, NotInTest)
        masked == Range(test_ratings) \cup Range(train_index)
    IN  train_index \o SortedSeq((0..(ni - 1)) \ masked)

\* lines 140-164 for one user: the k test sets and the k train sets, fold-minor
UserTestFolds(rated, non_rated, ni, k) ==
    [f \in 1..k |-> TestRatings(rated, non_rated, ni, k, f - 1)]

UserTrainFolds(rated, non_rated, ni, k) ==
    [f \in 1..k |-> TrainRatings(rated, TestRatings(rated, non_rated, ni, k, f - 1), ni)]

\* __init__ up to line 49, the holdout split aside: the options are set and
\* get_kfold_indices is about to run
KFoldInit(maxu, maxi, maxk, values) ==
    /\ n_users \in 1..maxu
    /\ n_items \in 1..maxi
    /\ ratings \in RatingsMatrices(n_users, n_items, values)
    /\ options \in OptionsWithK(maxk)
    /\ k_folds = SetOptionsKFolds(0, options)
    /\ pc = "get_kfold_indices"
    /\ user = 0
    /\ train_indices = << >>
    /\ kf_test_indices = << >>
    /\ fold_train_indices = None
    /\ fold_test_indices = None
    /\ fold_num = 0
    /\ fold_train_matrix = None
    /\ fold_test_matrix = None
    /\ SplitIdle
    /\ TrainIdle
    /\ AlsIdle

\* lines 113-164: one iteration of the loop over users
KFoldUser ==
    /\ pc = "get_kfold_indices"
    /\ user < n_users
    /\ LET rated_set == NonZeros(ratings[user])
           non_rated_set == (0..(n_items - 1)) \ rated_set
       IN  \E rated_items_indices \in Perms(rated_set) :
           \E non_rated_indices \in Perms(non_rated_set) :
             /\ kf_test_indices' = kf_test_indices \o
                    UserTestFolds(rated_items_indices, non_rated_indices, n_items, k_folds)
             /\ train_indices' = train_indices \o
                    UserTrainFolds(rated_items_indices, non_rated_indices, n_items, k_folds)
    /\ user' = user + 1
    /\ UNCHANGED <<ratings, n_users, n_items, pc, options, k_folds, fold_train_indices,
                   fold_test_indices, fold_num, fold_train_matrix, fold_test_matrix,
                   test_percentage, docs, empty_choice_ok, train, test, test_indices,
                   train_data, test_data, trainVars,
                   alsVars>>

\* line 166 and line 49: the lists are returned and stored
KFoldReturn ==
    /\ pc = "get_kfold_indices"
    /\ user >= n_users
    /\ fold_train_indices' = train_indices
    /\ fold_test_indices' = kf_test_indices
    /\ pc' = "ready"
    /\ UNCHANGED <<ratings, n_users, n_items, options, k_folds, train_indices,
                   kf_test_indices, fold_num, fold_train_matrix, fold_test_matrix,
                   splitVars, trainVars,
                   alsVars>>

\* ------------------------------------------- get_fold, generate_kfold_matrix
\* (mutation: the index advances by one instead of by k_folds)
GatherFoldUnitStride(indices, fnum, k, nu) ==
    [nth \in 1..nu |-> indices[((fnum - 1) + (nth - 1)) + 1]]

\* lines 195-201: the entries gathered for fold fnum, one per user
GatherFold(indices, fnum, k, nu) ==
    [nth \in 1..nu |-> indices[((fnum - 1) + (nth - 1) * k) + 1]]

\* lines 178-183: a zero matrix with the ratings copied at the given indices
GenerateMatrix(r, nu, ni, indices) ==
    [u \in 0..(nu - 1) |-> CopyAt(ZeroRow(ni), r[u], Range(indices[u + 1]))]

\* lines 185-202: get_fold(fnum); every index read is inside the lists
GetFold ==
    /\ pc = "ready"
    /\ \E fnum \in 1..k_folds :
         /\ (fnum - 1) + (n_users - 1) * k_folds < Len(fold_train_indices)
         /\ fold_num' = fnum
         /\ fold_train_matrix' = GenerateMatrix(ratings, n_users, n_items,
                GatherFold(fold_train_indices, fnum, k_folds, n_users))
         /\ fold_test_matrix' = GenerateMatrix(ratings, n_users, n_items,
                GatherFold(fold_test_indices, fnum, k_folds, n_users))
    /\ UNCHANGED <<ratings, n_users, n_items, pc, options, k_folds, train_indices,
                   kf_test_indices, fold_train_indices, fold_test_indices, splitVars,
                   trainVars,
                   alsVars>>

FoldNext ==
    \/ KFoldUser
    \/ KFoldReturn
    \/ GetFold

\* a single row (one user): the per-user arithmetic of get_kfold_indices, which
\* does not depend on the other rows
RowInit == KFoldInit(1, RowItems, MaxK, BinaryValues)
SpecKFold == RowInit /\ [][FoldNext]_vars

\* several users: the user-major, fold-minor layout read by get_fold
FoldInit == KFoldInit(FoldUsers, FoldItems, FoldK, BinaryValues)
SpecFold == FoldInit /\ [][FoldNext]_vars

\* ------------------------------------------- set_options after construction
\* lines 52-64: set_options(opts) called on the constructed solver; the fold
\* index lists are assigned in __init__ only (line 49) and stay as they are
SetOptionsCall ==
    /\ pc = "ready"
    /\ \E opts \in OptionsWithK(FoldK) :
         /\ k_folds' = SetOptionsKFolds(k_folds, opts)
         /\ options' = opts
    /\ UNCHANGED <<ratings, n_users, n_items, pc, train_indices, kf_test_indices,
                   fold_train_indices, fold_test_indices, fold_num, fold_train_matrix,
                   fold_test_matrix, splitVars, trainVars, alsVars>>

\* lines 195-199: get_fold(fnum) reads self.fold_train_indices[index] past the
\* end of the list
GetFoldIndexError ==
    /\ pc = "ready"
    /\ \E fnum \in 1..k_folds :
         /\ (fnum - 1) + (n_users - 1) * k_folds >= Len(fold_train_indices)
         /\ fold_num' = fnum
    /\ pc' = "IndexError"
    /\ UNCHANGED <<ratings, n_users, n_items, options, k_folds, train_indices,
                   kf_test_indices, fold_train_indices, fold_test_indices,
                   fold_train_matrix, fold_test_matrix, splitVars, trainVars, alsVars>>

OptionsNext ==
    \/ KFoldUser
    \/ KFoldReturn
    \/ SetOptionsCall
    \/ GetFold
    \/ GetFoldIndexError

\* the constructed solver with set_options and get_fold called in any order
SpecOptions == FoldInit /\ [][OptionsNext]_vars

\* ------------------------------------------------------ train, partial_train
\* a factor matrix after one more write by the given writer
Written(m, writer) == [by |-> writer, ver |-> m.ver + 1]

\* (mutation: a warm-started model is never trained further)
ShouldTrainIgnoringMore(found, more) == ~found

\* lines 257-268: whether train() calls partial_train
ShouldTrain(found, more) == IF ~found THEN TRUE ELSE more

\* (mutation: the loop runs over range(1, n_iter))
LoopContinuesShort(c, n) == c < n

\* line 297: for ctr in range(1, self.n_iter + 1)
LoopContinues(c, n) == c <= n

\* a call of the persistence adapter (self.initializer), as recorded in
\* adapter_log: the method, the matrix name, the matrix passed or returned (the
\* iteration count for set_config), the train() call that made it and the
\* number of half-steps performed before it
AdapterCall(op, name, arg, call) ==
    [op |-> op, name |-> name, arg |-> arg, call |-> call, after |-> Len(steps)]

\* (mutation: the user factors are saved under both names)
DumpedUserTwice(uvecs, ivecs, niter, call) ==
    <<AdapterCall("set_config", "config", niter, call),
      AdapterCall("save_matrix", "user_vecs", uvecs, call),
      AdapterCall("save_matrix", "item_vecs", uvecs, call)>>

\* lines 271-273: the three adapter calls of a dump, in order
Dumped(uvecs, ivecs, niter, call) ==
    <<AdapterCall("set_config", "config", niter, call),
      AdapterCall("save_matrix", "user_vecs", uvecs, call),
      AdapterCall("save_matrix", "item_vecs", ivecs, call)>>

\* the constructed solver, its splits aside: flags and options are set
TrainInit ==
    /\ n_users = 1
    /\ n_items = 1
    /\ ratings = [u \in 0..0 |-> [i \in 0..0 |-> 1]]
    /\ pc = "ready"
    /\ user = 0
    /\ SplitIdle
    /\ FoldIdle
    /\ load_matrices \in BOOLEAN
    /\ dump_matrices \in BOOLEAN
    /\ train_more \in BOOLEAN
    /\ n_iter \in 1..MaxIter
    /\ item_arg = None
    /\ users_found = FALSE
    /\ items_found = FALSE
    /\ matrices_found = FALSE
    /\ user_vecs = Unset
    /\ item_vecs = Unset
    /\ ctr = 0
    /\ pt_caller = None
    /\ steps = << >>
    /\ train_calls = 0
    /\ direct_calls = 0
    /\ pt_calls = 0
    /\ pt_in_train = 0
    /\ adapter_log = << >>
    /\ AlsIdle

\* lines 236-242: train(item_vecs) without warm start
TrainRandom ==
    /\ pc = "ready"
    /\ train_calls < MaxTrains
    /\ ~load_matrices
    /\ \E arg \in {None, "given"} :
         /\ item_arg' = arg
         /\ item_vecs' = Written(item_vecs, IF arg = None THEN "random" ELSE "given")
    /\ user_vecs' = Written(user_vecs, "random")
    /\ users_found' = FALSE
    /\ items_found' = FALSE
    /\ matrices_found' = FALSE
    /\ train_calls' = train_calls + 1
    /\ pt_in_train' = 0
    /\ pc' = "train_decide"
    /\ UNCHANGED <<ratings, n_users, n_items, splitVars, foldVars, load_matrices,
                   dump_matrices, train_more, n_iter, ctr, pt_caller, steps, direct_calls,
                   pt_calls, adapter_log,
                   alsVars>>

\* lines 236, 243-256: train(item_vecs) with warm start; load_matrix answers
\* (found, matrix), the matrix being a fresh one when nothing usable is stored
TrainLoad ==
    /\ pc = "ready"
    /\ train_calls < MaxTrains
    /\ load_matrices
    /\ \E arg \in {None, "given"} : \E ufound \in BOOLEAN : \E ifound \in BOOLEAN :
         /\ arg = "given" => ifound
         /\ item_arg' = arg
         /\ users_found' = ufound
         /\ user_vecs' = Written(user_vecs, IF ufound THEN "loaded" ELSE "random")
         /\ items_found' = ifound
         /\ item_vecs' = Written(item_vecs, IF arg = "given" THEN "given"
                                            ELSE IF ifound THEN "loaded" ELSE "random")
         /\ adapter_log' = adapter_log
                \o <<AdapterCall("load_matrix", "user_vecs", user_vecs', train_calls + 1)>>
                \o (IF arg = None
                    THEN <<AdapterCall("load_matrix", "item_vecs", item_vecs', train_calls + 1)>>
                    ELSE << >>)
         /\ matrices_found' = (ufound /\ ifound)
    /\ train_calls' = train_calls + 1
    /\ pt_in_train' = 0
    /\ pc' = "train_decide"
    /\ UNCHANGED <<ratings, n_users, n_items, splitVars, foldVars, load_matrices,
                   dump_matrices, train_more, n_iter, ctr, pt_caller, steps, direct_calls,
                   pt_calls,
                   alsVars>>

\* lines 257-268: partial_train is called (line 260 or 265) or skipped
TrainDecide ==
    /\ pc = "train_decide"
    /\ IF ShouldTrain(matrices_found, train_more)
       THEN /\ pc' = "partial_train"
            /\ ctr' = 1
            /\ pt_caller' = "train"
            /\ pt_calls' = pt_calls + 1
            /\ pt_in_train' = pt_in_train + 1
       ELSE /\ pc' = "train_dump"
            /\ UNCHANGED <<ctr, pt_caller, pt_calls, pt_in_train>>
    /\ UNCHANGED <<ratings, n_users, n_items, splitVars, foldVars, load_matrices,
                   dump_matrices, train_more, n_iter, item_arg, users_found, items_found,
                   matrices_found, user_vecs, item_vecs, steps, train_calls, direct_calls,
                   adapter_log,
                   alsVars>>

\* line 293: partial_train() called by the client of a trained solver
PartialTrainDirect ==
    /\ pc = "ready"
    /\ train_calls > 0
    /\ direct_calls < MaxDirect
    /\ pc' = "partial_train"
    /\ ctr' = 1
    /\ pt_caller' = "direct"
    /\ pt_calls' = pt_calls + 1
    /\ direct_calls' = direct_calls + 1
    /\ UNCHANGED <<ratings, n_users, n_items, splitVars, foldVars, load_matrices,
                   dump_matrices, train_more, n_iter, item_arg, users_found, items_found,
                   matrices_found, user_vecs, item_vecs, steps, train_calls, pt_in_train,
                   adapter_log,
                   alsVars>>

\* the record of a half-step: which version of the fixed matrix it read, which
\* version of the latent matrix it wrote, in which iteration of which call
HalfStep(type, fixed, latent) ==
    [type |-> type, read |-> fixed.ver, wrote |-> latent.ver, iter |-> ctr,
     call |-> pt_calls, owner |-> IF pt_caller = "train" THEN train_calls ELSE 0]

\* lines 297, 301: the user half-step, als_step(user_vecs, item_vecs, ..., 'user')
UserHalfStep ==
    /\ pc = "partial_train"
    /\ n_iter # NoAttr
    /\ LoopContinues(ctr, n_iter)
    /\ user_vecs' = Written(user_vecs, "user_step")
    /\ steps' = Append(steps, HalfStep("user", item_vecs, user_vecs'))
    /\ pc' = "partial_train_item"
    /\ UNCHANGED <<ratings, n_users, n_items, splitVars, foldVars, load_matrices,
                   dump_matrices, train_more, n_iter, item_arg, users_found, items_found,
                   matrices_found, item_vecs, ctr, pt_caller, train_calls, direct_calls,
                   pt_calls, pt_in_train, adapter_log,
                   alsVars>>

\* line 302: the item half-step, als_step(item_vecs, user_vecs, ..., 'item')
ItemHalfStep ==
    /\ pc = "partial_train_item"
    /\ item_vecs' = Written(item_vecs, "item_step")
    /\ steps' = Append(steps, HalfStep("item", user_vecs, item_vecs'))
    /\ ctr' = ctr + 1
    /\ pc' = "partial_train"
    /\ UNCHANGED <<ratings, n_users, n_items, splitVars, foldVars, load_matrices,
                   dump_matrices, train_more, n_iter, item_arg, users_found, items_found,
                   matrices_found, user_vecs, pt_caller, train_calls, direct_calls,
                   pt_calls, pt_in_train, adapter_log,
                   alsVars>>

\* line 297: the range is exhausted and partial_train returns to its caller
PartialTrainReturn ==
    /\ pc = "partial_train"
    /\ n_iter # NoAttr
    /\ ~LoopContinues(ctr, n_iter)
    /\ pc' = IF pt_caller = "train" THEN "train_dump" ELSE "ready"
    /\ UNCHANGED <<ratings, n_users, n_items, splitVars, foldVars, load_matrices,
                   dump_matrices, train_more, n_iter, item_arg, users_found, items_found,
                   matrices_found, user_vecs, item_vecs, ctr, pt_caller, steps,
                   train_calls, direct_calls, pt_calls, pt_in_train, adapter_log,
                   alsVars>>

\* lines 270-273: the factors are saved when dump_matrices is set; train returns
\* (the verbose report of lines 274-291 changes no state)
TrainDump ==
    /\ pc = "train_dump"
    /\ dump_matrices => n_iter # NoAttr
    /\ adapter_log' = IF dump_matrices
                      THEN adapter_log \o Dumped(user_vecs, item_vecs, n_iter, train_calls)
                      ELSE adapter_log
    /\ pc' = "ready"
    /\ UNCHANGED <<ratings, n_users, n_items, splitVars, foldVars, load_matrices,
                   dump_matrices, train_more, n_iter, item_arg, users_found, items_found,
                   matrices_found, user_vecs, item_vecs, ctr, pt_caller, steps,
                   train_calls, direct_calls, pt_calls, pt_in_train,
                   alsVars>>

TrainNext ==
    \/ TrainRandom
    \/ TrainLoad
    \/ TrainDecide
    \/ PartialTrainDirect
    \/ UserHalfStep
    \/ ItemHalfStep
    \/ PartialTrainReturn
    \/ TrainDump

SpecTrain == TrainInit /\ [][TrainNext]_vars

\* ----------------------------------------------------- exact arithmetic
\* Floating-point values are fractions <<numerator, denominator>> in lowest
\* terms with a positive denominator; the operations are exact.
Abs(x) == IF x < 0 THEN -x ELSE x

RECURSIVE Gcd(_, _)
Gcd(a, b) == IF b = 0 THEN a ELSE Gcd(b, a % b)

Frac(n, d) ==
    LET g == Gcd(Abs(n), Abs(d))
        s == IF d < 0 THEN -1 ELSE 1
    IN  <<(s * n) \div g, (s * d) \div g>>

RZero == <<0, 1>>
ROfInt(k) == <<k, 1>>
RNeg(x) == <<-x[1], x[2]>>
\* (common factors are cancelled before multiplying, to keep the numbers small)
RAdd(x, y) ==
    LET g == Gcd(x[2], y[2])
    IN  Frac(x[1] * (y[2] \div g) + y[1] * (x[2] \div g), (x[2] \div g) * y[2])
RMul(x, y) ==
    LET g == Gcd(Abs(x[1]), y[2])
        h == Gcd(Abs(y[1]), x[2])
    IN  Frac((x[1] \div g) * (y[1] \div h), (x[2] \div h) * (y[2] \div g))
RDiv(x, y) == RMul(x, IF y[1] < 0 THEN <<-y[2], -y[1]>> ELSE <<y[2], y[1]>>)

\* the sum of f[0], ..., f[n - 1]
RECURSIVE SumTo(_, _)
SumTo(f, n) == IF n = 0 THEN RZero ELSE RAdd(SumTo(f, n - 1), f[n - 1])

\* the number of rows of a matrix, of entries of a vector
Size(f) == Cardinality(DOMAIN f)

\* M.shape of a two-dimensional array
Shape(M) == <<Size(M), IF Size(M) = 0 THEN 0 ELSE Size(M[0])>>

\* x.dot(y) of two one-dimensional arrays
Dot(x, y) == SumTo([k \in DOMAIN x |-> RMul(x[k], y[k])], Size(x))

\* (mutation: the transpose is left out)
TransposeNot(M) == M

\* M.T of a two-dimensional array
Transpose(M) ==
    [c \in 0..(Shape(M)[2] - 1) |-> [r \in 0..(Shape(M)[1] - 1) |-> M[r][c]]]

\* A.dot(B) of two two-dimensional arrays
MatMul(A, B) ==
    [r \in DOMAIN A |->
        [c \in 0..(Shape(B)[2] - 1) |->
            SumTo([k \in DOMAIN B |-> RMul(A[r][k], B[k][c])], Size(B))]]

\* v.dot(M): a one-dimensional array times a two-dimensional one
VecMat(v, M) ==
    [c \in 0..(Shape(M)[2] - 1) |->
        SumTo([k \in DOMAIN M |-> RMul(v[k], M[k][c])], Size(M))]

\* A.dot(x): a square matrix times a vector
MatVec(A, x) == [r \in DOMAIN A |-> Dot(A[r], x)]

MatAdd(A, B) == [r \in DOMAIN A |-> [c \in DOMAIN A[r] |-> RAdd(A[r][c], B[r][c])]]

\* an integer matrix or row as fractions
AsFractions(row) == [i \in DOMAIN row |-> ROfInt(row[i])]

\* (mutation: the regularization term is dropped)
LambdaIZero(n, lam) == [a \in 0..(n - 1) |-> [b \in 0..(n - 1) |-> RZero]]

\* numpy.eye(n) * _lambda
LambdaI(n, lam) == [a \in 0..(n - 1) |-> [b \in 0..(n - 1) |-> IF a = b THEN lam ELSE RZero]]

\* A without row 0 and column c
Minor(A, n, c) ==
    [i \in 0..(n - 2) |-> [j \in 0..(n - 2) |-> A[i + 1][IF j < c THEN j ELSE j + 1]]]

\* the determinant of an n x n matrix, by expansion along row 0
RECURSIVE Det(_, _)
Det(A, n) ==
    IF n = 1 THEN A[0][0]
    ELSE SumTo([c \in 0..(n - 1) |->
                   LET term == RMul(A[0][c], Det(Minor(A, n, c), n - 1))
                   IN  IF c % 2 = 0 THEN term ELSE RNeg(term)], n)

\* A with column j replaced by the vector b
ReplaceColumn(A, j, b) ==
    [i \in DOMAIN A |-> [k \in DOMAIN A[i] |-> IF k = j THEN b[i] ELSE A[i][k]]]

\* numpy.linalg.solve(A, b) raises LinAlgError on a singular A
Singular(A) == Det(A, Size(A)) = RZero

\* solve(A, b) for a non-singular A: the x with A x = b (Cramer's rule)
solve(A, b) ==
    [j \in DOMAIN A |-> RDiv(Det(ReplaceColumn(A, j, b), Size(A)), Det(A, Size(A)))]

\* ------------------------------------------------------- als_step, numeric
\* lines 216-217, 224-225: fixed_vecs.T.dot(fixed_vecs) + lambdaI
Regularized(fixed_vecs, lam) ==
    LET YTY == MatMul(Transpose(fixed_vecs), fixed_vecs)
    IN  MatAdd(YTY, LambdaI(Size(YTY), lam))

\* (mutation: every row is solved against the ratings of index 0)
RatingsOfFirst(r, type, idx) ==
    IF type = "user" THEN AsFractions(r[0])
    ELSE [u \in DOMAIN r |-> ROfInt(r[u][0])]

\* lines 221, 228: ratings[u, :] for a user row, ratings[:, i].T for an item row
RatingsOf(r, type, idx) ==
    IF type = "user" THEN AsFractions(r[idx])
    ELSE [u \in DOMAIN r |-> ROfInt(r[u][idx])]

\* lines 220-221, 227-228: the new row idx of the latent matrix
AlsRowValue(fixed_vecs, r, lam, type, idx) ==
    solve(Regularized(fixed_vecs, lam), VecMat(RatingsOf(r, type, idx), fixed_vecs))

\* the matrices of the running als_step call (lines 301, 302)
Latent == IF role = "user" THEN user_vecs ELSE item_vecs
Fixed == IF role = "user" THEN item_vecs ELSE user_vecs

\* ------------------------------------------------- random values, inputs
\* value number k of the random stream of a seed: 0 or 1/2, by the bits of the seed
Stream(seed, k) == Frac((seed \div (2 ^ (k % AlsSeedBits))) % 2, 2)

\* numpy.random.random((rows, cols)), drawn from position pos of the stream
RandomMatrix(seed, pos, rows, cols) ==
    [r \in 0..(rows - 1) |-> [c \in 0..(cols - 1) |-> Stream(seed, pos + r * cols + c)]]

\* a matrix of the caller with entries base + r + 2c
PatternMatrix(rows, cols, base) ==
    [r \in 0..(rows - 1) |-> [c \in 0..(cols - 1) |-> ROfInt(base + r + 2 * c)]]

\* the matrices a caller passes as item_vecs (of the shape the solver expects)
SuppliedMatrices(rows, cols) ==
    {PatternMatrix(rows, cols, 1), [r \in 0..(rows - 1) |-> [c \in 0..(cols - 1) |-> ROfInt(1)]]}

\* the ratings of the fixture of the tests, shifted: 1 where (user + item + shift) % 3 = 0
FixtureRatings(nu, ni, shift) ==
    [u \in 0..(nu - 1) |-> [i \in 0..(ni - 1) |-> IF (u + i + shift) % 3 = 0 THEN 1 ELSE 0]]

\* ------------------------------------------------- persistence adapter
\* The adapter keeps one matrix per hyperparameters and name; a stored matrix
\* of another shape than the expected one counts as not found.
Stored(st, hp, name, shape) ==
    {f \in st : f.key = hp /\ f.name = name /\ Shape(f.matrix) = shape}

\* (mutation: the shape of the stored matrix is not checked)
load_matrix_any_shape(st, hp, name, shape, fresh) ==
    LET found == {f \in st : f.key = hp /\ f.name = name}
    IN  IF found # {} THEN <<TRUE, (CHOOSE f \in found : TRUE).matrix>>
        ELSE <<FALSE, fresh>>

\* load_matrix(hyperparameters, name, expected_shape) -> (found, matrix)
load_matrix(st, hp, name, shape, fresh) ==
    IF Stored(st, hp, name, shape) # {}
    THEN <<TRUE, (CHOOSE f \in Stored(st, hp, name, shape) : TRUE).matrix>>
    ELSE <<FALSE, fresh>>

\* (mutation: the matrix is saved with its first row zeroed)
save_matrix_lossy(st, hp, matrix, name) ==
    {f \in st : ~(f.key = hp /\ f.name = name)}
        \cup {[key |-> hp, name |-> name,
               matrix |-> [matrix EXCEPT ![0] = [c \in DOMAIN matrix[0] |-> RZero]]]}

\* set_config(hyperparameters, n_iter) then save_matrix(matrix, name)
save_matrix(st, hp, matrix, name) ==
    {f \in st : ~(f.key = hp /\ f.name = name)}
        \cup {[key |-> hp, name |-> name, matrix |-> matrix]}

\* what the adapter holds before the first solver is built
StoreKinds == {"empty", "other_shape", "both", "users_only"}

InitialStore(kind, hp, nu, ni, nf) ==
    IF kind = "empty" THEN {}
    ELSE IF kind = "other_shape"
    THEN {[key |-> hp, name |-> "user_vecs", matrix |-> PatternMatrix(nu + 1, nf, 2)],
          [key |-> hp, name |-> "item_vecs", matrix |-> PatternMatrix(ni, nf + 1, 2)]}
    ELSE IF kind = "both"
    THEN {[key |-> hp, name |-> "user_vecs", matrix |-> PatternMatrix(nu, nf, 2)],
          [key |-> hp, name |-> "item_vecs", matrix |-> PatternMatrix(ni, nf, 3)]}
    ELSE {[key |-> hp, name |-> "user_vecs", matrix |-> PatternMatrix(nu, nf, 2)]}

\* ------------------------------------------ train with numeric factors
\* what no step of train, partial_train and als_step changes
alsFrame == <<ratings, n_users, n_items, splitVars, foldVars, n_iter, pt_caller,
              direct_calls, pt_in_train, hyperparameters, n_factors, lambda>>

\* a constructed solver with its hyperparameters, its ratings (split with an
\* empty test set, as int(0.2 * n) = 0 gives for rows this short), its flags,
\* the random generator and the adapter it was given
SolverInit(seeds, shifts, kinds, loads, dumps, mores) ==
    /\ n_users \in 1..AlsUsers
    /\ n_items \in 1..AlsItems
    /\ n_factors \in FactorCounts
    /\ lambda \in Lambdas
    /\ hyperparameters = [k \in {"n_factors", "_lambda"} |->
                             IF k = "n_factors" THEN ROfInt(n_factors) ELSE lambda]
    /\ ratings \in {FixtureRatings(n_users, n_items, shift) : shift \in shifts}
    /\ train_data = ratings
    /\ test_data = ZeroMatrix(n_users, n_items)
    /\ test_percentage = 20
    /\ docs = FALSE
    /\ empty_choice_ok = TRUE
    /\ user = 0
    /\ train = None
    /\ test = None
    /\ test_indices = << >>
    /\ FoldIdle
    /\ load_matrices \in loads
    /\ dump_matrices \in dumps
    /\ train_more \in mores
    /\ n_iter = 1
    /\ item_arg = None
    /\ users_found = FALSE
    /\ items_found = FALSE
    /\ matrices_found = FALSE
    /\ user_vecs = << >>
    /\ item_vecs = << >>
    /\ ctr = 0
    /\ pt_caller = "train"
    /\ steps = << >>
    /\ train_calls = 0
    /\ direct_calls = 0
    /\ pt_calls = 0
    /\ pt_in_train = 0
    /\ adapter_log = << >>
    /\ rng \in {<<seed, 0>> : seed \in seeds}
    /\ role = None
    /\ als_row = 0
    /\ \E kind \in kinds :
           store = InitialStore(kind, hyperparameters, n_users, n_items, n_factors)
    /\ solver = 1
    /\ first_final = << >>
    /\ supplied = << >>
    /\ pc = "ready"

\* (mutation: a supplied item matrix is ignored)
ItemVecsAtStartIgnoringArg(arg, M, other) == other

\* lines 239-242, 248-255: the item factors train() starts from: the matrix
\* passed as item_vecs, or else the random or loaded one
ItemVecsAtStart(arg, M, other) == IF arg = None THEN other ELSE M

\* lines 236-242: train(item_vecs) without warm start
AlsTrainRandom ==
    /\ pc = "ready"
    /\ train_calls = solver - 1
    /\ ~load_matrices
    /\ \E arg \in {None, "given"} : \E M \in SuppliedMatrices(n_items, n_factors) :
         /\ item_arg' = arg
         /\ user_vecs' = RandomMatrix(rng[1], rng[2], n_users, n_factors)
         /\ item_vecs' = ItemVecsAtStart(arg, M,
                              RandomMatrix(rng[1], rng[2] + n_users * n_factors,
                                           n_items, n_factors))
         /\ IF arg = None
            THEN /\ rng' = <<rng[1], rng[2] + (n_users + n_items) * n_factors>>
                 /\ supplied' = << >>
            ELSE /\ rng' = <<rng[1], rng[2] + n_users * n_factors>>
                 /\ supplied' = M
    /\ users_found' = FALSE
    /\ items_found' = FALSE
    /\ matrices_found' = FALSE
    /\ train_calls' = train_calls + 1
    /\ pc' = "train_decide"
    /\ UNCHANGED <<alsFrame, load_matrices, dump_matrices, train_more, ctr, steps,
                   pt_calls, adapter_log, role, als_row, store, solver, first_final>>

\* lines 236, 243-256: train(item_vecs) with warm start
AlsTrainLoad ==
    /\ pc = "ready"
    /\ train_calls = solver - 1
    /\ load_matrices
    /\ \E arg \in {None, "given"} : \E M \in SuppliedMatrices(n_items, n_factors) :
         LET ushape == <<n_users, n_factors>>
             ul == load_matrix(store, hyperparameters, "user_vecs", ushape,
                               RandomMatrix(rng[1], rng[2], n_users, n_factors))
             upos == IF ul[1] THEN rng[2] ELSE rng[2] + n_users * n_factors
             ishape == <<n_items, n_factors>>
             il == load_matrix(store, hyperparameters, "item_vecs", ishape,
                               RandomMatrix(rng[1], upos, n_items, n_factors))
             ipos == IF il[1] THEN upos ELSE upos + n_items * n_factors
         IN  /\ item_arg' = arg
             /\ users_found' = ul[1]
             /\ user_vecs' = ul[2]
             /\ item_vecs' = ItemVecsAtStart(arg, M, il[2])
             /\ IF arg = None
                THEN /\ items_found' = il[1]
                     /\ rng' = <<rng[1], ipos>>
                     /\ supplied' = << >>
                     /\ adapter_log' = adapter_log
                          \o <<AdapterCall("load_matrix", "user_vecs", ul[2], train_calls + 1),
                               AdapterCall("load_matrix", "item_vecs", il[2], train_calls + 1)>>
                ELSE /\ items_found' = TRUE
                     /\ rng' = <<rng[1], upos>>
                     /\ supplied' = M
                     /\ adapter_log' = adapter_log
                          \o <<AdapterCall("load_matrix", "user_vecs", ul[2], train_calls + 1)>>
             /\ matrices_found' = (users_found' /\ items_found')
    /\ train_calls' = train_calls + 1
    /\ pc' = "train_decide"
    /\ UNCHANGED <<alsFrame, load_matrices, dump_matrices, train_more, ctr, steps,
                   pt_calls, role, als_row, store, solver, first_final>>

\* lines 257-268: partial_train is called (line 260 or 265) or skipped
AlsTrainDecide ==
    /\ pc = "train_decide"
    /\ IF ShouldTrain(matrices_found, train_more)
       THEN /\ pc' = "partial_train"
            /\ ctr' = 1
            /\ pt_calls' = pt_calls + 1
       ELSE /\ pc' = "train_dump"
            /\ UNCHANGED <<ctr, pt_calls>>
    /\ UNCHANGED <<alsFrame, load_matrices, dump_matrices, train_more, item_arg,
                   users_found, items_found, matrices_found, user_vecs, item_vecs, steps,
                   train_calls, adapter_log, rng, role, als_row, store, solver,
                   first_final, supplied>>

\* lines 297, 301: the next iteration calls als_step(user_vecs, item_vecs, ..., 'user')
AlsStepEnter ==
    /\ pc = "partial_train"
    /\ LoopContinues(ctr, n_iter)
    /\ role' = "user"
    /\ als_row' = 0
    /\ pc' = "als_step"
    /\ UNCHANGED <<alsFrame, load_matrices, dump_matrices, train_more, item_arg,
                   users_found, items_found, matrices_found, user_vecs, item_vecs, ctr,
                   steps, train_calls, pt_calls, adapter_log, rng, store, solver,
                   first_final, supplied>>

\* lines 219-221, 226-228: one row of the latent matrix is solved and written
AlsStepRow ==
    /\ pc = "als_step"
    /\ als_row < Size(Latent)
    /\ ~Singular(Regularized(Fixed, lambda))
    /\ LET x == AlsRowValue(Fixed, train_data, lambda, role, als_row)
       IN  IF role = "user"
           THEN /\ user_vecs' = [user_vecs EXCEPT ![als_row] = x]
                /\ UNCHANGED item_vecs
           ELSE /\ item_vecs' = [item_vecs EXCEPT ![als_row] = x]
                /\ UNCHANGED user_vecs
    /\ als_row' = als_row + 1
    /\ UNCHANGED <<alsFrame, pc, load_matrices, dump_matrices, train_more, item_arg,
                   users_found, items_found, matrices_found, ctr, steps, train_calls,
                   pt_calls, adapter_log, rng, role, store, solver, first_final, supplied>>

\* lines 220, 227: solve raises LinAlgError, which nothing in als_step,
\* partial_train or train catches
AlsStepSingular ==
    /\ pc = "als_step"
    /\ als_row < Size(Latent)
    /\ Singular(Regularized(Fixed, lambda))
    /\ pc' = "LinAlgError"
    /\ UNCHANGED <<alsFrame, load_matrices, dump_matrices, train_more, item_arg,
                   users_found, items_found, matrices_found, user_vecs, item_vecs, ctr,
                   steps, train_calls, pt_calls, adapter_log, rng, role, als_row, store,
                   solver, first_final, supplied>>

\* lines 229, 301-302: als_step returns; after the user half-step partial_train
\* calls als_step(item_vecs, user_vecs, ..., 'item'), after the item half-step
\* the iteration ends
AlsStepReturn ==
    /\ pc = "als_step"
    /\ als_row >= Size(Latent)
    /\ steps' = Append(steps, [type |-> role, iter |-> ctr, solver |-> solver])
    /\ IF role = "user"
       THEN /\ role' = "item"
            /\ als_row' = 0
            /\ UNCHANGED <<pc, ctr>>
       ELSE /\ role' = None
            /\ als_row' = 0
            /\ ctr' = ctr + 1
            /\ pc' = "partial_train"
    /\ UNCHANGED <<alsFrame, load_matrices, dump_matrices, train_more, item_arg,
                   users_found, items_found, matrices_found, user_vecs, item_vecs,
                   train_calls, pt_calls, adapter_log, rng, store, solver, first_final,
                   supplied>>

\* line 297: the range is exhausted and partial_train returns to train
AlsPartialTrainReturn ==
    /\ pc = "partial_train"
    /\ n_iter # NoAttr
    /\ ~LoopContinues(ctr, n_iter)
    /\ pc' = "train_dump"
    /\ UNCHANGED <<alsFrame, load_matrices, dump_matrices, train_more, item_arg,
                   users_found, items_found, matrices_found, user_vecs, item_vecs, ctr,
                   steps, train_calls, pt_calls, adapter_log, rng, role, als_row, store,
                   solver, first_final, supplied>>

\* lines 270-273: the factors are saved when dump_matrices is set; train returns
AlsTrainDump ==
    /\ pc = "train_dump"
    /\ dump_matrices => n_iter # NoAttr
    /\ IF dump_matrices
       THEN /\ store' = save_matrix(save_matrix(store, hyperparameters, user_vecs, "user_vecs"),
                                    hyperparameters, item_vecs, "item_vecs")
            /\ adapter_log' = adapter_log \o Dumped(user_vecs, item_vecs, n_iter, train_calls)
       ELSE UNCHANGED <<store, adapter_log>>
    /\ first_final' = IF solver = 1
                      THEN [user_vecs |-> user_vecs, item_vecs |-> item_vecs,
                            dumped |-> dump_matrices]
                      ELSE first_final
    /\ pc' = "ready"
    /\ UNCHANGED <<alsFrame, load_matrices, dump_matrices, train_more, item_arg,
                   users_found, items_found, matrices_found, user_vecs, item_vecs, ctr,
                   steps, train_calls, pt_calls, rng, role, als_row, solver, supplied>>

\* lines 18-49: a second solver is built on the same ratings, with the same
\* hyperparameters, options and adapter, with train_more=False and its own
\* load_matrices and dump_matrices
NewSolver ==
    /\ pc = "ready"
    /\ solver = 1
    /\ train_calls = 1
    /\ solver' = 2
    /\ load_matrices' \in BOOLEAN
    /\ dump_matrices' \in BOOLEAN
    /\ train_more' = FALSE
    /\ user_vecs' = << >>
    /\ item_vecs' = << >>
    /\ item_arg' = None
    /\ users_found' = FALSE
    /\ items_found' = FALSE
    /\ matrices_found' = FALSE
    /\ ctr' = 0
    /\ pt_calls' = 0
    /\ supplied' = << >>
    /\ UNCHANGED <<alsFrame, pc, steps, train_calls, adapter_log, rng, role, als_row,
                   store, first_final>>

\* one solver that starts from random factors: the arithmetic of the half-steps
AlsInit ==
    SolverInit(0..(2 ^ AlsSeedBits - 1), FixtureShifts, {"empty"}, {FALSE}, BOOLEAN, {TRUE})

AlsNext ==
    \/ AlsTrainRandom
    \/ AlsTrainDecide
    \/ AlsStepEnter
    \/ AlsStepRow
    \/ AlsStepSingular
    \/ AlsStepReturn
    \/ AlsPartialTrainReturn
    \/ AlsTrainDump

SpecAls == AlsInit /\ [][AlsNext]_vars

\* two solvers in turn on one persistence adapter
PersistInit == SolverInit(PersistSeeds, {0}, StoreKinds, BOOLEAN, BOOLEAN, BOOLEAN)

PersistNext ==
    \/ AlsNext
    \/ AlsTrainLoad
    \/ NewSolver

SpecPersist == PersistInit /\ [][PersistNext]_vars

\* ------------------------------------------------ predictions
\* (mutation: the user row is always row 0)
predict_first_user(user_idx, item_idx) == Dot(user_vecs[0], item_vecs[item_idx])

\* lines 315-322: user_vecs[user, :].dot(item_vecs[item, :].T), the transpose of
\* a one-dimensional array being the array itself
predict(user_idx, item_idx) == Dot(user_vecs[user_idx], item_vecs[item_idx])

\* lines 305-312: user_vecs.dot(item_vecs.T)
get_predictions == MatMul(user_vecs, Transpose(item_vecs))

\* -------------------------------------------------------------- __init__
\* the dictionaries with the keys of the given set present
HyperparameterDicts ==
    {[key \in present |-> IF key = "n_factors" THEN 1 ELSE <<1, 1>>] :
        present \in SUBSET {"n_factors", "_lambda"}}

OptionDicts ==
    {[key \in present |-> IF key = "n_iterations" THEN 1 ELSE 2] :
        present \in SUBSET {"n_iterations", "k_folds"}}

\* the call CollaborativeFiltering(initializer, evaluator, hyperparameters,
\* options, ...) after lines 34-38, on a ratings matrix of one user
ConstructInit ==
    /\ n_users = 1
    /\ n_items \in {1, 2}
    /\ ratings \in RatingsMatrices(n_users, n_items, BinaryValues)
    /\ hyperparameters \in HyperparameterDicts
    /\ options \in OptionDicts
    /\ pc = "set_hyperparameters"
    /\ test_percentage = 20
    /\ docs = FALSE
    /\ empty_choice_ok \in BOOLEAN
    /\ user = 0
    /\ train = None
    /\ test = None
    /\ test_indices = << >>
    /\ train_data = None
    /\ test_data = None
    /\ k_folds = 0
    /\ train_indices = << >>
    /\ kf_test_indices = << >>
    /\ fold_train_indices = None
    /\ fold_test_indices = None
    /\ fold_num = 0
    /\ fold_train_matrix = None
    /\ fold_test_matrix = None
    /\ load_matrices \in BOOLEAN
    /\ dump_matrices \in BOOLEAN
    /\ train_more \in BOOLEAN
    /\ n_iter = NoAttr
    /\ item_arg = None
    /\ users_found = FALSE
    /\ items_found = FALSE
    /\ matrices_found = FALSE
    /\ user_vecs = Unset
    /\ item_vecs = Unset
    /\ ctr = 0
    /\ pt_caller = None
    /\ steps = << >>
    /\ train_calls = 0
    /\ direct_calls = 0
    /\ pt_calls = 0
    /\ pt_in_train = 0
    /\ adapter_log = << >>
    /\ n_factors = NoAttr
    /\ lambda = <<0, 1>>
    /\ rng = <<0, 0>>
    /\ role = None
    /\ als_row = 0
    /\ store = {}
    /\ solver = 1
    /\ first_final = << >>
    /\ supplied = << >>

\* lines 73-74: hyperparameters['n_factors'] and hyperparameters['_lambda'] can be read
HasRequired(hp) == "n_factors" \in DOMAIN hp /\ "_lambda" \in DOMAIN hp

\* lines 39, 67-75: set_hyperparameters; a missing key raises KeyError, which
\* leaves the constructor
SetHyperparameters ==
    /\ pc = "set_hyperparameters"
    /\ IF HasRequired(hyperparameters)
       THEN /\ n_factors' = hyperparameters["n_factors"]
            /\ lambda' = hyperparameters["_lambda"]
            /\ pc' = "set_options"
       ELSE /\ pc' = "KeyError"
            /\ UNCHANGED <<n_factors, lambda>>
    /\ UNCHANGED <<ratings, n_users, n_items, splitVars, foldVars, trainVars,
                   hyperparameters, rng, role, als_row, store, solver, first_final,
                   supplied>>

\* lines 58-59: self.n_iter after set_options(opts)
SetOptionsNIter(n_prev, opts) ==
    IF "n_iterations" \in DOMAIN opts THEN opts["n_iterations"] ELSE n_prev

\* lines 40-48, 52-64: set_options, the flags, and the call of naive_split()
SetOptions ==
    /\ pc = "set_options"
    /\ n_iter' = SetOptionsNIter(n_iter, options)
    /\ k_folds' = SetOptionsKFolds(k_folds, options)
    /\ test_indices' = << >>
    /\ pc' = "naive_split"
    /\ UNCHANGED <<ratings, n_users, n_items, test_percentage, docs, empty_choice_ok,
                   user, train, test, train_data, test_data, options, train_indices,
                   kf_test_indices, fold_train_indices, fold_test_indices, fold_num,
                   fold_train_matrix, fold_test_matrix, load_matrices, dump_matrices,
                   train_more, item_arg, users_found, items_found, matrices_found,
                   user_vecs, item_vecs, ctr, pt_caller, steps, train_calls,
                   direct_calls, pt_calls, pt_in_train, adapter_log, alsVars>>

\* line 49: naive_split has returned, get_kfold_indices is called
ConstructKFold ==
    /\ pc = "split_done"
    /\ user' = 0
    /\ pc' = "get_kfold_indices"
    /\ UNCHANGED <<ratings, n_users, n_items, test_percentage, docs, empty_choice_ok,
                   train, test, test_indices, train_data, test_data, foldVars, trainVars,
                   alsVars>>

\* line 297: partial_train reads self.n_iter, which set_options never set
PartialTrainAttributeError ==
    /\ pc = "partial_train"
    /\ n_iter = NoAttr
    /\ pc' = "AttributeError"
    /\ UNCHANGED <<ratings, n_users, n_items, splitVars, foldVars, trainVars, alsVars>>

\* line 271: the dump reads self.n_iter, which set_options never set
TrainDumpAttributeError ==
    /\ pc = "train_dump"
    /\ dump_matrices
    /\ n_iter = NoAttr
    /\ pc' = "AttributeError"
    /\ UNCHANGED <<ratings, n_users, n_items, splitVars, foldVars, trainVars, alsVars>>

\* the constructor, then train() and partial_train() on the solver it returned
ConstructNext ==
    \/ SetHyperparameters
    \/ SetOptions
    \/ NaiveSplitEnter
    \/ NaiveSplitUser
    \/ NaiveSplitEmptyChoice
    \/ NaiveSplitReturn
    \/ ConstructKFold
    \/ KFoldUser
    \/ KFoldReturn
    \/ TrainNext
    \/ PartialTrainAttributeError
    \/ TrainDumpAttributeError

SpecConstruct == ConstructInit /\ [][ConstructNext]_vars

\* ------------------------------------------------------------------ claims
\* C1: after naive_split returns, train_data and test_data partition the
\* ratings matrix: no entry is non-zero in both, train + test = ratings, and
\* every non-zero test entry is the original rating of a rated position.
C1_SplitPartition ==
    pc = "split_done" =>
        \A u \in 0..(n_users - 1) : \A i \in 0..(n_items - 1) :
            /\ train_data[u][i] * test_data[u][i] = 0
            /\ train_data[u][i] + test_data[u][i] = ratings[u][i]
            /\ test_data[u][i] # 0 => (test_data[u][i] = ratings[u][i] /\ ratings[u][i] # 0)

C1_Witness ==
    /\ pc = "split_done"
    /\ \E u \in 0..(n_users - 1) :
         /\ NonZeros(test_data[u]) # {}
         /\ NonZeros(train_data[u]) # {}

\* C2: naive_split moves, for each user, exactly round(test_fraction * |rated|)
\* distinct rated indices to test (a draw without replacement): the test row has
\* that many non-zero entries and the train row keeps the other rated entries.
C2_RoundedDistinctDraw ==
    pc = "split_done" =>
        \A u \in 0..(n_users - 1) :
            LET rated == NonZeros(ratings[u])
                want  == PyRound(test_percentage * Cardinality(rated), 100)
            IN  /\ Cardinality(NonZeros(test_data[u])) = want
                /\ u + 1 <= Len(test_indices)
                /\ Len(test_indices[u + 1]) = Cardinality(Range(test_indices[u + 1]))
                /\ NonZeros(train_data[u]) = rated \ NonZeros(test_data[u])

\* the stored entry of user u (0-based) and fold f (0-based), user-major
FoldTest(u, f) == fold_test_indices[(u * k_folds + f) + 1]
FoldTrain(u, f) == fold_train_indices[(u * k_folds + f) + 1]
Rated(u) == NonZeros(ratings[u])
Unrated(u) == (0..(n_items - 1)) \ Rated(u)
\* the rated items and the padding (unrated items) of a stored test set
ChunkSeq(u, f) == LET IsRated(x) == x \in Rated(u) IN SelectSeq(FoldTest(u, f), IsRated)
PadSeq(u, f) == LET IsUnrated(x) == x \notin Rated(u) IN SelectSeq(FoldTest(u, f), IsUnrated)
NoDuplicates(q) == Len(q) = Cardinality(Range(q))
Users == 0..(n_users - 1)
Folds == 0..(k_folds - 1)

RECURSIVE SumChunkLen(_, _)
SumChunkLen(u, f) == IF f < 0 THEN 0 ELSE Len(ChunkSeq(u, f)) + SumChunkLen(u, f - 1)

RECURSIVE SumPadLen(_, _)
SumPadLen(u, f) == IF f < 0 THEN 0 ELSE Len(PadSeq(u, f)) + SumPadLen(u, f - 1)

\* C3: for every user the rated item indices are partitioned across the test
\* sets of the k folds: no rated item is in two folds' test sets, every rated
\* item is in some fold's test set, and the rated chunks sum to |rated|.
C3_RatedPartition ==
    pc = "ready" =>
        \A u \in Users :
            /\ \A f, g \in Folds :
                   f # g => Range(ChunkSeq(u, f)) \cap Range(ChunkSeq(u, g)) = {}
            /\ UNION {Range(ChunkSeq(u, f)) : f \in Folds} = Rated(u)
            /\ SumChunkLen(u, k_folds - 1) = Cardinality(Rated(u))

\* a user whose rated items do not divide evenly: the last fold takes a remainder
C3_Witness ==
    /\ pc = "ready"
    /\ k_folds >= 2
    /\ \E u \in Users :
         /\ Len(ChunkSeq(u, 0)) >= 1
         /\ Len(ChunkSeq(u, k_folds - 1)) > Len(ChunkSeq(u, 0))

\* C4: for every user and fold the train index set and the test index set are
\* disjoint, hold no index twice, and together are exactly 0..n_items-1.
C4_FoldComplement ==
    pc = "ready" =>
        \A u \in Users : \A f \in Folds :
            /\ Range(FoldTrain(u, f)) \cap Range(FoldTest(u, f)) = {}
            /\ NoDuplicates(FoldTrain(u, f))
            /\ NoDuplicates(FoldTest(u, f))
            /\ Range(FoldTrain(u, f)) \cup Range(FoldTest(u, f)) = 0..(n_items - 1)

\* a fold whose test set has a rated and a padded index, and whose train set has
\* a rated and an unrated index
C4_Witness ==
    /\ pc = "ready"
    /\ \E u \in Users : \E f \in Folds :
         /\ ChunkSeq(u, f) # << >>
         /\ PadSeq(u, f) # << >>
         /\ Range(FoldTrain(u, f)) \cap Rated(u) # {}
         /\ Range(FoldTrain(u, f)) \cap Unrated(u) # {}

\* C5: for every user, no unrated index is padded into the test sets of two
\* different folds.
C5_PaddingDisjoint ==
    pc = "ready" =>
        \A u \in Users : \A f, g \in Folds :
            f # g => Range(PadSeq(u, f)) \cap Range(PadSeq(u, g)) = {}

\* two folds of one user are padded with different numbers of unrated indices
C5_Witness ==
    /\ pc = "ready"
    /\ \E u \in Users : \E f, g \in Folds :
         /\ PadSeq(u, f) # << >>
         /\ PadSeq(u, g) # << >>
         /\ Len(PadSeq(u, f)) # Len(PadSeq(u, g))

\* C6: whenever the padding target of a fold, n_items / k_folds minus the number
\* of rated items of its chunk, is zero or negative, the fold's test set holds
\* rated items only.
C6_NoPaddingWhenNonPositive ==
    pc = "ready" =>
        \A u \in Users : \A f \in Folds :
            n_items - Len(ChunkSeq(u, f)) * k_folds <= 0 => PadSeq(u, f) = << >>

C8_GetFoldMatrices ==
    fold_num # 0 =>
        \A u \in Users : \A i \in 0..(n_items - 1) :
            LET pos == (u * k_folds + (fold_num - 1)) + 1
            IN  /\ fold_test_matrix[u][i] =
                       (IF i \in Range(fold_test_indices[pos]) THEN ratings[u][i] ELSE 0)
                /\ fold_train_matrix[u][i] =
                       (IF i \in Range(fold_train_indices[pos]) THEN ratings[u][i] ELSE 0)
                /\ fold_train_matrix[u][i] * fold_test_matrix[u][i] = 0
                /\ fold_train_matrix[u][i] + fold_test_matrix[u][i] = ratings[u][i]

\* a later fold of a second user with ratings on both sides
C8_Witness ==
    /\ fold_num # 0
    /\ fold_num >= 2
    /\ n_users >= 2
    /\ NonZeros(fold_test_matrix[1]) # {}
    /\ NonZeros(fold_train_matrix[1]) # {}
    /\ NonZeros(fold_test_matrix[1]) # NonZeros(fold_test_matrix[0])

\* the half-steps performed by the last train() call
StepsOfLastTrain == {j \in 1..Len(steps) : steps[j].owner = train_calls}

\* C9: train() skips partial_train (zero half-steps) if and only if load_matrices
\* is true, loading succeeded for both the user and the item factor matrix, and
\* train_more is false; in every other case partial_train is called exactly once.
C9_SkipIffBothLoaded ==
    (pc = "ready" /\ train_calls > 0) =>
        LET frozen == /\ load_matrices
                      /\ users_found
                      /\ (item_arg = None /\ items_found)
                      /\ ~train_more
        IN  /\ frozen => (pt_in_train = 0 /\ StepsOfLastTrain = {})
            /\ ~frozen => (pt_in_train = 1 /\ StepsOfLastTrain # {})

\* C9 (amended): train() skips partial_train if and only if load_matrices is
\* true, the user factors were loaded, the item factors were loaded or supplied
\* by the caller as item_vecs, and train_more is false; in every other case
\* partial_train is called exactly once.
C9_SkipIffFoundOrSupplied ==
    (pc = "ready" /\ train_calls > 0) =>
        LET frozen == /\ load_matrices
                      /\ users_found
                      /\ (item_arg = "given" \/ items_found)
                      /\ ~train_more
        IN  /\ frozen => (pt_in_train = 0 /\ StepsOfLastTrain = {})
            /\ ~frozen => (pt_in_train = 1 /\ Cardinality(StepsOfLastTrain) = 2 * n_iter)

\* a second train() call finds both matrices and skips, after a first that trained
C9_Witness ==
    /\ pc = "ready"
    /\ train_calls = 2
    /\ load_matrices /\ users_found /\ items_found /\ ~train_more
    /\ pt_in_train = 0
    /\ \E j \in 1..Len(steps) : steps[j].owner = 1

\* the versions of the item factors that were written by item half-steps
ItemStepVersions == {steps[j].wrote : j \in {i \in 1..Len(steps) : steps[i].type = "item"}}

\* C10: each partial_train call performs exactly n_iterations iterations, a user
\* half-step then an item half-step each; the user half-step reads the item
\* factors of the preceding item half-step (or the initial ones), the item
\* half-step the user factors just written; m calls perform m * n_iterations
\* iterations.
C10_AlternatingIterations ==
    /\ \A j \in 1..Len(steps) :
         /\ steps[j].type = (IF j % 2 = 1 THEN "user" ELSE "item")
         /\ steps[j].iter = (((j - 1) \div 2) % n_iter) + 1
         /\ steps[j].call = ((j - 1) \div (2 * n_iter)) + 1
         /\ steps[j].type = "item" => steps[j].read = steps[j - 1].wrote
         /\ steps[j].type = "user" =>
                \/ j > 1 /\ steps[j].read = steps[j - 1].wrote
                \/ /\ steps[j].read \notin ItemStepVersions
                   /\ j > 1 => steps[j].read > steps[j - 1].wrote
    /\ pc \in {"ready", "train_decide", "train_dump"} =>
           Len(steps) = 2 * n_iter * pt_calls

\* two calls of partial_train, one of them direct, of two iterations each
C10_Witness ==
    /\ pc = "ready"
    /\ n_iter >= 2
    /\ pt_calls >= 2
    /\ direct_calls >= 1
    /\ Len(steps) = 2 * n_iter * pt_calls

\* the adapter calls of train() call c: its loads, and its set_config / saves
LoadsOf(c) == LET Mine(e) == e.call = c /\ e.op = "load_matrix"
              IN  SelectSeq(adapter_log, Mine)
SavesOf(c) == LET Mine(e) == e.call = c /\ e.op # "load_matrix"
              IN  SelectSeq(adapter_log, Mine)
\* the half-steps performed by train() call c
StepsOfTrain(c) == {j \in 1..Len(steps) : steps[j].owner = c}
LastOf(S) == CHOOSE j \in S : \A i \in S : i <= j
\* train() call c has returned
Returned(c) == c < train_calls \/ (c = train_calls /\ pc = "ready")

\* C11: a train() call with dump_matrices set calls set_config, then save_matrix
\* for 'user_vecs', then save_matrix for 'item_vecs', each exactly once, after
\* the last half-step of that call and with the factor matrices that half-step
\* left (in frozen-model mode: the matrices as loaded or supplied); with
\* dump_matrices false it calls neither set_config nor save_matrix.
C11_DumpOnceAfterLastStep ==
    \A c \in 1..train_calls :
        Returned(c) =>
            LET saves == SavesOf(c)
                loads == LoadsOf(c)
                mine  == StepsOfTrain(c)
            IN  IF ~dump_matrices THEN saves = << >>
                ELSE /\ Len(saves) = 3
                     /\ saves[1].op = "set_config" /\ saves[1].arg = n_iter
                     /\ saves[2].op = "save_matrix" /\ saves[2].name = "user_vecs"
                     /\ saves[3].op = "save_matrix" /\ saves[3].name = "item_vecs"
                     /\ \A k \in 1..3 : \A j \in mine : j <= saves[k].after
                     /\ mine # {} =>
                            /\ steps[LastOf(mine)].type = "item"
                            /\ saves[3].arg = [by |-> "item_step", ver |-> steps[LastOf(mine)].wrote]
                            /\ saves[2].arg = [by |-> "user_step",
                                               ver |-> steps[LastOf(mine) - 1].wrote]
                     /\ mine = {} =>
                            /\ Len(loads) >= 1
                            /\ saves[2].arg = loads[1].arg /\ saves[2].arg.by = "loaded"
                            /\ IF Len(loads) = 2
                               THEN saves[3].arg = loads[2].arg /\ saves[3].arg.by = "loaded"
                               ELSE saves[3].arg.by = "given"
                     /\ (c = train_calls /\ saves[3].after = Len(steps)) =>
                            (saves[2].arg = user_vecs /\ saves[3].arg = item_vecs)

\* a first train() call that trained and dumped, then a frozen one that dumped
C11_Witness ==
    /\ pc = "ready"
    /\ train_calls = 2
    /\ dump_matrices
    /\ StepsOfTrain(1) # {}
    /\ StepsOfTrain(2) = {}
    /\ Len(SavesOf(1)) = 3
    /\ Len(SavesOf(2)) = 3
    /\ SavesOf(2)[3].arg # SavesOf(1)[3].arg


\* the half-steps performed by the given solver
StepsOfSolver(s) == {j \in 1..Len(steps) : steps[j].solver = s}
\* the train() call of the second solver has returned
SecondReturned == pc = "ready" /\ solver = 2 /\ train_calls = 2

MissingRequired ==
    \/ "n_factors" \notin DOMAIN hyperparameters
    \/ "_lambda" \notin DOMAIN hyperparameters
    \/ "n_iterations" \notin DOMAIN options

\* C13: when a required hyperparameter key (n_factors, _lambda) or option key
\* (n_iterations) is missing, the constructor fails before any split is
\* computed: it never gets past set_options, no train/test matrices or fold
\* indices exist, no solver is returned and no train() call is made.
C13_MissingKeyFailsAtConstruction ==
    MissingRequired =>
        /\ pc \in {"set_hyperparameters", "set_options", "KeyError"}
        /\ train_data = None
        /\ fold_train_indices = None
        /\ train_calls = 0

\* C14: sparse users never cause an error while splitting: naive_split does not
\* fail on a user without rated items and selects no test item for that user;
\* get_kfold_indices completes for a user with fewer rated items than k_folds
\* and stores k folds for that user, some of them without a rated test item.
C14_SparseUsersNeverFail ==
    /\ pc # "ValueError"
    /\ pc \in {"split_loop", "split_done"} =>
           \A u \in 0..(n_users - 1) :
               (u + 1 <= Len(test_indices) /\ NonZeros(ratings[u]) = {}) =>
                   test_indices[u + 1] = << >>
    /\ pc = "ready" =>
           /\ Len(fold_test_indices) = n_users * k_folds
           /\ \A u \in Users :
                  Cardinality(Rated(u)) < k_folds =>
                      \E f \in Folds : ChunkSeq(u, f) = << >>

\* the rows of Y with the indices of S, in ascending order
SubMatrix(Y, S) == LET q == SortedSeq(S) IN [a \in 0..(Len(q) - 1) |-> Y[q[a + 1]]]
\* Y has fewer independent rows than columns: every square block of as many
\* rows as Y has columns has determinant 0
RankDeficient(Y) ==
    \A S \in SUBSET DOMAIN Y :
        Cardinality(S) = Shape(Y)[2] => Det(SubMatrix(Y, S), Shape(Y)[2]) = RZero
\* the Gram matrix of the fixed matrix plus lambda on the diagonal, entry by entry
GramPlusLambda(Y, lam) ==
    [a \in 0..(Shape(Y)[2] - 1) |->
        [b \in 0..(Shape(Y)[2] - 1) |->
            RAdd(SumTo([k \in DOMAIN Y |-> RMul(Y[k][a], Y[k][b])], Size(Y)),
                 IF a = b THEN lam ELSE RZero)]]
\* the right-hand side of the system of latent row r, entry by entry
RightHandSide(Y, r) ==
    [a \in 0..(Shape(Y)[2] - 1) |->
        SumTo([k \in DOMAIN Y |->
                  RMul(ROfInt(IF role = "user" THEN train_data[r][k] ELSE train_data[k][r]),
                       Y[k][a])], Size(Y))]
\* an als_step call is running or has just failed
InAlsStep == pc \in {"als_step", "LinAlgError"}

\* the next row solve of the running als_step call
RowSolvePending == pc = "als_step" /\ als_row < Size(Latent)

FactorsAssigned == train_calls = solver /\ solver \in {1, 2} /\ user_vecs # << >>
\* the current solver's train() call has returned
TrainReturned == pc = "ready" /\ train_calls = solver

\* C16: in and after a train() call without a supplied item matrix, user_vecs
\* has shape (n_users, n_factors) and item_vecs has shape (n_items, n_factors),
\* whether they were drawn, loaded or trained; after the call get_predictions()
\* has the shape of the ratings, and so have train_data and test_data.
C16_ShapesAfterTrain ==
    /\ (FactorsAssigned /\ item_arg = None) =>
           /\ Shape(user_vecs) = <<n_users, n_factors>>
           /\ Shape(item_vecs) = <<n_items, n_factors>>
           /\ \A u \in DOMAIN user_vecs : Size(user_vecs[u]) = n_factors
           /\ \A i \in DOMAIN item_vecs : Size(item_vecs[i]) = n_factors
    /\ (TrainReturned /\ item_arg = None) =>
           /\ Shape(get_predictions) = <<n_users, n_items>>
           /\ Shape(ratings) = <<n_users, n_items>>
           /\ Shape(train_data) = Shape(ratings)
           /\ Shape(test_data) = Shape(ratings)
           /\ \A u \in DOMAIN get_predictions : Size(get_predictions[u]) = n_items

\* train() has returned with load_matrices set while the adapter holds matrices
\* of another shape for these hyperparameters: they were not taken
C16_Witness ==
    /\ TrainReturned
    /\ item_arg = None
    /\ load_matrices
    /\ ~users_found
    /\ ~items_found
    /\ n_users # n_items
    /\ n_factors = 2
    /\ \E f \in store : /\ f.key = hyperparameters
                        /\ f.name = "user_vecs"
                        /\ Shape(f.matrix) # <<n_users, n_factors>>

\* C17: for every user u and item i of a solver whose train() has returned,
\* predict(u, i) is entry (u, i) of get_predictions(), and both are the sum over
\* the factors of user_vecs[u][f] * item_vecs[i][f] of the current matrices.
C17_PredictIsPredictionsEntry ==
    TrainReturned =>
        \A u \in 0..(n_users - 1) : \A i \in 0..(n_items - 1) :
            /\ predict(u, i) = get_predictions[u][i]
            /\ predict(u, i) =
                   SumTo([f \in 0..(n_factors - 1) |-> RMul(user_vecs[u][f], item_vecs[i][f])],
                         n_factors)

\* a trained solver with two users, two items and two factors whose predictions
\* differ from one user to the other and from one item to the other
C17_Witness ==
    /\ TrainReturned
    /\ n_users = 2
    /\ n_items = 2
    /\ n_factors = 2
    /\ Len(steps) > 0
    /\ predict(0, 0) # predict(1, 0)
    /\ predict(0, 0) # predict(0, 1)
    /\ predict(1, 1) # RZero

\* the solution of the system of latent row r, from the fixed matrix, lambda
\* and the ratings of r alone
RowSolution(Y, lam, r) == solve(GramPlusLambda(Y, lam), RightHandSide(Y, r))

\* C18: within one als_step half-step every row already written is the
\* solution computed from the fixed matrix, lambda and that row's ratings (row
\* u of train_data for the user role, column i for the item role), whatever
\* the row and the other rows held before; writing a row changes no other row
\* of the latent matrix, nor the fixed matrix, nor the ratings.
C18_RowsSolvedIndependently ==
    /\ [](pc = "als_step" =>
            \A r \in 0..(als_row - 1) : Latent[r] = RowSolution(Fixed, lambda, r))
    /\ [][RowSolvePending =>
             /\ Fixed' = Fixed
             /\ train_data' = train_data
             /\ ratings' = ratings
             /\ lambda' = lambda
             /\ \A r \in DOMAIN Latent : r # als_row => Latent'[r] = Latent[r]
             /\ pc' = "als_step" =>
                    /\ als_row' = als_row + 1
                    /\ Latent'[als_row] = RowSolution(Fixed, lambda, als_row)]_vars

\* the item half-step has written both rows of a two-factor item matrix, with
\* different values, from ratings that differ between the two items
C18_Witness ==
    /\ pc = "als_step"
    /\ role = "item"
    /\ n_users = 2
    /\ n_items = 2
    /\ n_factors = 2
    /\ als_row = 2
    /\ item_vecs[0] # item_vecs[1]
    /\ \E u \in 0..1 : train_data[u][0] # train_data[u][1]

\* round(|rated| / k) of user u
RoundedShare(u) == PyRound(Cardinality(Rated(u)), k_folds)
Max(a, b) == IF a > b THEN a ELSE b
Min(a, b) == IF a < b THEN a ELSE b

\* C19: for every user each of the first k-1 folds receives exactly
\* round(|rated| / k) rated items and the final fold receives exactly the
\* remainder |rated| - (k-1) * round(|rated| / k).
C19_RoundedChunks ==
    pc = "ready" =>
        \A u \in Users :
            /\ \A f \in Folds : f < k_folds - 1 => Len(ChunkSeq(u, f)) = RoundedShare(u)
            /\ Len(ChunkSeq(u, k_folds - 1)) =
                   Cardinality(Rated(u)) - (k_folds - 1) * RoundedShare(u)

\* C19 (amended): for every user, fold f of the first k-1 folds (counted from
\* 0) receives round(|rated| / k) rated items while that many are left after
\* the f earlier folds, otherwise the items that are left, possibly none; the
\* final fold receives what is left after k-1 folds, nothing when the rounded
\* shares have already used up the rated items.
C19_ClippedChunks ==
    pc = "ready" =>
        \A u \in Users :
            LET n == Cardinality(Rated(u))
                s == RoundedShare(u)
            IN  /\ \A f \in Folds :
                       f < k_folds - 1 => Len(ChunkSeq(u, f)) = Min(s, Max(0, n - f * s))
                /\ Len(ChunkSeq(u, k_folds - 1)) = Max(0, n - (k_folds - 1) * s)

\* the rounded shares use up the rated items before the last fold: an earlier
\* fold is cut short and the last fold is empty
C19_Witness ==
    /\ pc = "ready"
    /\ \E u \in Users :
         /\ RoundedShare(u) >= 1
         /\ (k_folds - 1) * RoundedShare(u) > Cardinality(Rated(u))
         /\ Len(ChunkSeq(u, 0)) = RoundedShare(u)
         /\ \E f \in Folds : f < k_folds - 1 /\ Len(ChunkSeq(u, f)) < RoundedShare(u)
         /\ ChunkSeq(u, k_folds - 1) = << >>

\* the running solver's train() was called with a supplied item matrix
TrainGiven == train_calls = solver /\ item_arg = "given"
\* the load_matrix calls of the running train() for the given name
LoadsNamed(name) == LET Named(e) == e.name = name IN SelectSeq(LoadsOf(train_calls), Named)

\* C20: when train(item_vecs=M) is called, the item factors start as M and
\* load_matrix is not called for 'item_vecs'; with load_matrices the supplied
\* matrix counts as found, so partial_train is skipped exactly when the user
\* factors were loaded and train_more is false (without load_matrices it always
\* runs); in that frozen case the factors are the loaded user matrix and M, and
\* the predictions are their product.
C20_SuppliedItemFactors ==
    TrainGiven =>
        /\ pc = "train_decide" => item_vecs = supplied
        /\ LoadsNamed("item_vecs") = << >>
        /\ Len(LoadsNamed("user_vecs")) = (IF load_matrices THEN 1 ELSE 0)
        /\ load_matrices => (items_found /\ matrices_found = users_found)
        /\ ~load_matrices => ~matrices_found
        /\ pc \in {"train_dump", "ready"} =>
               LET frozen == load_matrices /\ users_found /\ ~train_more
               IN  /\ (StepsOfSolver(solver) = {}) <=> frozen
                   /\ pt_calls = (IF frozen THEN 0 ELSE 1)
                   /\ frozen =>
                          /\ item_vecs = supplied
                          /\ user_vecs = LoadsNamed("user_vecs")[1].arg
                          /\ Stored(store, hyperparameters, "user_vecs",
                                    <<n_users, n_factors>>) # {}
                          /\ pc = "ready" =>
                                 get_predictions =
                                     MatMul(LoadsNamed("user_vecs")[1].arg, Transpose(supplied))

\* the frozen case with a supplied item matrix, while the adapter holds another
\* item matrix of the expected shape for these hyperparameters
C20_Witness ==
    /\ TrainGiven
    /\ pc = "ready"
    /\ load_matrices /\ users_found /\ ~train_more
    /\ StepsOfSolver(solver) = {}
    /\ n_users = 2 /\ n_items = 2 /\ n_factors = 2
    /\ item_vecs = supplied
    /\ \E f \in Stored(store, hyperparameters, "item_vecs", <<n_items, n_factors>>) :
           f.matrix # supplied

\* the k_folds with which get_kfold_indices built the stored lists (line 49)
BuiltKFolds == Len(fold_test_indices) \div n_users
\* the user and the fold (from 1) for which the entry at 0-based position p of
\* the stored lists was appended (lines 140-164)
EntryUser(p) == p \div BuiltKFolds
EntryFold(p) == (p % BuiltKFolds) + 1
\* line 194, 200: the position get_fold(f) reads for user u
ReadPosition(f, u) == (f - 1) + u * k_folds

\* C21: on a constructed solver, whatever calls of set_options and get_fold were
\* made, the stored fold index lists hold n_users * k_folds entries for the
\* current k_folds, and get_fold(f) with 1 <= f <= k_folds reads for every user
\* u a position inside the lists that holds the entry of user u for fold f; no
\* get_fold call has failed with an IndexError.
C21_FoldListsFollowKFolds ==
    pc \in {"ready", "IndexError"} =>
        /\ pc # "IndexError"
        /\ Len(fold_train_indices) = n_users * k_folds
        /\ Len(fold_test_indices) = n_users * k_folds
        /\ \A f \in 1..k_folds : \A u \in Users :
               /\ ReadPosition(f, u) < Len(fold_test_indices)
               /\ EntryUser(ReadPosition(f, u)) = u
               /\ EntryFold(ReadPosition(f, u)) = f
=============================================================================
